---- MODULE Spec2Model ----
(***************************************************************************)
(* The generation-request lifecycle of the AI Concept Animator front end:  *)
(* the Request Client (generateAnimationFromPrompt), the progress          *)
(* estimator, the lifecycle controller (handleGenerate, handleCancel) and  *)
(* the chat adapter (chat setup effect, handleChatSubmit) of App.          *)
(*                                                                         *)
(* A JavaScript string is a sequence of tokens (a token is a run of        *)
(* characters or one blank " "); trimming and concatenation work on that   *)
(* sequence.  A nullable value is a sequence of length at most one:        *)
(* Null is <<>> and Some(v) is <<v>>.                                      *)
(***************************************************************************)
EXTENDS Naturals, Sequences, FiniteSets

VARIABLES
    prompt,              \* useState prompt
    loadingState,        \* useState loadingState
    error,               \* useState error (string | null)
    animationData,       \* useState animationData (result | null)
    videoUrl,            \* useState videoUrl (string | null)
    chatHistory,         \* useState chatHistory
    chatInput,           \* useState chatInput
    chatRef,             \* useRef chatRef (session | null)
    generationProgress,  \* useState generationProgress
    progressTimerRef,    \* useRef progressTimerRef (0 is null, else a timer id)
    abortControllerRef,  \* useRef abortControllerRef (0 is null, else a request id)
    requests,            \* the fetch calls made so far, by request id
    chatCalls,           \* the sendMessage calls made so far
    intervals,           \* the ids of the scheduled setInterval tickers
    timeouts,            \* the ids of the scheduled setTimeout settle timers
    timerSeq,            \* the last timer id handed out by the window
    apiKey,              \* import.meta.env.VITE_GEMINI_API_KEY is set
    mounted              \* the App component is mounted

vars == <<prompt, loadingState, error, animationData, videoUrl, chatHistory,
          chatInput, chatRef, generationProgress, progressTimerRef,
          abortControllerRef, requests, chatCalls, intervals, timeouts,
          timerSeq, apiKey, mounted>>

\* ---------------------------------------------------------------- bounds
\* the fetch calls and sendMessage calls of one run of the page, together
MaxCalls == 3

\* ------------------------------------------------------- program constants
ProgressCap == 92
ProgressDone == 100
TickSpread == 6

\* ------------------------------------------------------------------ values
Null == <<>>
Some(v) == <<v>>

IDLE == "IDLE"
GENERATING == "GENERATING"
RESPONDING_CHAT == "RESPONDING_CHAT"
DONE == "DONE"
ERROR == "ERROR"
LoadingState == {IDLE, GENERATING, RESPONDING_CHAT, DONE, ERROR}

Blank == " "
DefaultPrompt == <<"Visualize the dot product of two vectors, v=[2,1] and w=[1,3]">>
Prompts == {DefaultPrompt, <<Blank>>}
ChatInputs == {<<>>, <<Blank, Blank>>, <<"why?", Blank>>}

BaseAddress == <<"http://localhost:8000">>
GenericFailureMsg == <<"The backend failed to render the animation.">>
CancelledMsg == <<"Request cancelled by user.">>
UnreachableMsg == <<"Could not connect to the local animation server. Is it running?">>
UnknownErrorMsg == <<"An unknown error occurred.">>
EmptyPromptMsg == <<"Please enter a prompt.">>
GenerationCancelledMsg == <<"Generation cancelled.">>
MissingKeyMsg == <<"VITE_GEMINI_API_KEY is not set. Please add it to your .env file for the chat feature.">>
ChatFailedMsg == <<"Failed to get chat response.">>
ChatApologyMsg == <<"Sorry, I encountered an error.">>
InitialChatMessage == <<"I've created this animation and code for you. Let me know if you have questions!">>
EmptyExplanation == <<"{}">>
\* the messages of the exceptions the JavaScript engine itself raises
JsonSyntaxErrorMsg == <<"Unexpected token < in JSON at position 0">>
NullAccessMsg == <<"Cannot read properties of null">>
FetchFailedMsg == <<"Failed to fetch">>
AbortedMsg == <<"The user aborted a request.">>

\* String.prototype.trim: drop the leading and the trailing blanks
RECURSIVE TrimStart(_)
TrimStart(s) ==
    IF s = <<>> THEN <<>>
    ELSE IF Head(s) = Blank THEN TrimStart(Tail(s)) ELSE s

RECURSIVE TrimEnd(_)
TrimEnd(s) ==
    IF s = <<>> THEN <<>>
    ELSE IF s[Len(s)] = Blank THEN TrimEnd(SubSeq(s, 1, Len(s) - 1)) ELSE s

Trim(s) == TrimEnd(TrimStart(s))

\* JavaScript truthiness of a string: the empty string is falsy
Truthy(s) == s # <<>>

\* --------------------------------------------------- the backend's answers
Codes == {<<"class A(Scene): ...">>, <<"class B(Scene): ...">>}
Paths == {<<"/files/x.mp4">>}
DetailStrings == {<<"render failed">>}
DetailMessages == {<<"scene error">>}
Replies == {<<"It shows the projection.">>}
Explanations == {<<"{\"intro\": \"The dot product measures alignment.\"}">>}

\* What the transport hands to one fetch call.  kind: "ok" is a response with
\* response.ok, "http" a response without it, "network" a rejected fetch,
\* "abort" a fetch rejected by its signal.  shape is what response.json()
\* finds: an object, the value null, or text that is not JSON.
Outcome(kind, shape, detailType, detail, message, code, path) ==
    [kind |-> kind, shape |-> shape, detailType |-> detailType,
     detail |-> detail, message |-> message,
     manim_code |-> code, download_url |-> path, explanation |-> Null]

\* the same answer with an explanation field next to code and path
WithExplanation(o, e) == [o EXCEPT !.explanation = Some(e)]

OkOutcomes ==
    {Outcome("ok", "object", "absent", <<>>, <<>>, c, u) : c \in Codes, u \in Paths}
    \cup {WithExplanation(Outcome("ok", "object", "absent", <<>>, <<>>, c, u), e) :
              c \in Codes, u \in Paths, e \in Explanations}
    \cup {Outcome("ok", sh, "absent", <<>>, <<>>, <<>>, <<>>) : sh \in {"null", "unparseable"}}

HttpErrorOutcomes ==
    {Outcome("http", "object", "string", d, <<>>, <<>>, <<>>) : d \in DetailStrings}
    \cup {Outcome("http", "object", "object", <<>>, m, <<>>, <<>>) : m \in DetailMessages}
    \cup {Outcome("http", "object", "absent", <<>>, <<>>, <<>>, <<>>)}
    \cup {Outcome("http", sh, "absent", <<>>, <<>>, <<>>, <<>>) : sh \in {"null", "unparseable"}}

NetworkOutcome == Outcome("network", "none", "absent", <<>>, <<>>, <<>>, <<>>)
AbortOutcome == Outcome("abort", "none", "absent", <<>>, <<>>, <<>>, <<>>)

\* a fetch whose signal is aborted rejects with AbortError; any other fetch
\* answers, fails with an HTTP status, or cannot connect
OutcomesOf(st) ==
    IF st = "aborting" THEN {AbortOutcome}
    ELSE OkOutcomes \cup HttpErrorOutcomes \cup {NetworkOutcome}

\* ------------------------------------------- generateAnimationFromPrompt
Return(result) == [threw |-> FALSE, errType |-> "none", message |-> <<>>, result |-> Some(result)]
Throw(errType, message) == [threw |-> TRUE, errType |-> errType, message |-> message, result |-> Null]

\* lines 106-111: the message of a non-success response
BackendMessage(o) ==
    IF o.detailType = "string" THEN o.detail
    ELSE IF o.detailType = "object" /\ Truthy(o.message) THEN o.message
    ELSE GenericFailureMsg

\* MakeResult that takes the explanation from the response when it has one
MakeResultFromResponse(o) ==
    [manimCode |-> o.manim_code,
     explanationScript |-> IF o.explanation # Null THEN o.explanation[1]
                           ELSE EmptyExplanation,
     initialChatMessage |-> InitialChatMessage,
     videoUrl |-> BaseAddress \o o.download_url]

\* MakeResult without the base address in front of the download path
MakeResultBarePath(o) ==
    [manimCode |-> o.manim_code,
     explanationScript |-> EmptyExplanation,
     initialChatMessage |-> InitialChatMessage,
     videoUrl |-> o.download_url]

\* lines 118-125: the result built from a success response
MakeResult(o) ==
    [manimCode |-> o.manim_code,
     explanationScript |-> EmptyExplanation,
     initialChatMessage |-> InitialChatMessage,
     videoUrl |-> BaseAddress \o o.download_url]

\* lines 87-126: the try block
TryBlock(o) ==
    IF o.kind = "network" THEN Throw("TypeError", FetchFailedMsg)
    ELSE IF o.kind = "abort" THEN Throw("AbortError", AbortedMsg)
    ELSE IF o.shape = "unparseable" THEN Throw("SyntaxError", JsonSyntaxErrorMsg)
    ELSE IF o.shape = "null" THEN Throw("TypeError", NullAccessMsg)
    ELSE IF o.kind = "http" THEN Throw("Error", BackendMessage(o))
    ELSE Return(MakeResult(o))

\* CatchBlock without the AbortError branch of lines 130-132
CatchBlockWithoutAbort(c) ==
    IF ~c.threw THEN c
    ELSE IF c.errType = "TypeError" THEN Throw("Error", UnreachableMsg)
    ELSE c

\* lines 127-137: the catch block
CatchBlock(c) ==
    IF ~c.threw THEN c
    ELSE IF c.errType = "AbortError" THEN Throw("Error", CancelledMsg)
    ELSE IF c.errType = "TypeError" THEN Throw("Error", UnreachableMsg)
    ELSE c

generateAnimationFromPrompt(o) == CatchBlock(TryBlock(o))

\* ------------------------------------------------------------ the state
Init ==
    /\ prompt = DefaultPrompt
    /\ loadingState = IDLE
    /\ error = Null
    /\ animationData = Null
    /\ videoUrl = Null
    /\ chatHistory = <<>>
    /\ chatInput = <<>>
    /\ chatRef = Null
    /\ generationProgress = 0
    /\ progressTimerRef = 0
    /\ abortControllerRef = 0
    /\ requests = <<>>
    /\ chatCalls = <<>>
    /\ intervals = {}
    /\ timeouts = {}
    /\ timerSeq = 0
    /\ apiKey \in BOOLEAN
    /\ mounted = TRUE

Min(a, b) == IF a < b THEN a ELSE b

\* Abort that leaves the fetch in flight
AbortNothing(reqs, r) == reqs

\* AbortController.abort(): a fetch still in flight rejects, and the rejection
\* reaches its awaiting handleGenerate as a microtask, before any other event
Abort(reqs, r) ==
    IF r # 0 /\ reqs[r].st = "pending" THEN [reqs EXCEPT ![r].st = "aborting"] ELSE reqs

\* the microtask queue is empty: the event loop takes the next event, timer
\* or network answer only then
NoMicrotask == \A r \in DOMAIN requests : requests[r].st # "aborting"

\* window.clearInterval(progressTimerRef.current) behind "if (progressTimerRef.current)"
ClearProgressTimer == IF progressTimerRef # 0 THEN intervals \ {progressTimerRef} ELSE intervals

\* a chat form whose input and button are never disabled
ChatFormNeverDisabled == FALSE

\* lines 538 and 541: the chat input and the Send button are disabled while a
\* chat reply is awaited
ChatFormDisabled == loadingState = RESPONDING_CHAT

\* the user edits the prompt textarea / the chat input
SetPrompt(p) ==
    /\ NoMicrotask
    /\ prompt' = p
    /\ UNCHANGED <<loadingState, error, animationData, videoUrl, chatHistory,
                   chatInput, chatRef, generationProgress, progressTimerRef,
                   abortControllerRef, requests, chatCalls, intervals, timeouts,
                   timerSeq, apiKey, mounted>>

SetChatInput(s) ==
    /\ NoMicrotask
    /\ animationData # Null /\ ~ChatFormDisabled
    /\ chatInput' = s
    /\ UNCHANGED <<prompt, loadingState, error, animationData, videoUrl, chatHistory,
                   chatRef, generationProgress, progressTimerRef,
                   abortControllerRef, requests, chatCalls, intervals, timeouts,
                   timerSeq, apiKey, mounted>>

\* the banner's dismiss button: setError(null)
DismissError ==
    /\ NoMicrotask
    /\ error # Null
    /\ error' = Null
    /\ UNCHANGED <<prompt, loadingState, animationData, videoUrl, chatHistory,
                   chatInput, chatRef, generationProgress, progressTimerRef,
                   abortControllerRef, requests, chatCalls, intervals, timeouts,
                   timerSeq, apiKey, mounted>>

\* GenerateRejected that treats the empty prompt as a failed run
GenerateRejectedSetsError ==
    /\ NoMicrotask
    /\ ~Truthy(Trim(prompt))
    /\ error' = Some(EmptyPromptMsg)
    /\ loadingState' = ERROR
    /\ UNCHANGED <<prompt, animationData, videoUrl, chatHistory,
                   chatInput, chatRef, generationProgress, progressTimerRef,
                   abortControllerRef, requests, chatCalls, intervals, timeouts,
                   timerSeq, apiKey, mounted>>

\* handleGenerate, lines 198-201: the prompt is empty after trimming
GenerateRejected ==
    /\ NoMicrotask
    /\ ~Truthy(Trim(prompt))
    /\ error' = Some(EmptyPromptMsg)
    /\ UNCHANGED <<prompt, loadingState, animationData, videoUrl, chatHistory,
                   chatInput, chatRef, generationProgress, progressTimerRef,
                   abortControllerRef, requests, chatCalls, intervals, timeouts,
                   timerSeq, apiKey, mounted>>

\* GenerateStarted without the resets of lines 206-207: transcript and
\* session of the earlier run are kept
GenerateStartedKeepsChat ==
    /\ NoMicrotask
    /\ Truthy(Trim(prompt))
    /\ Len(requests) + Len(chatCalls) < MaxCalls
    /\ error' = Null
    /\ loadingState' = GENERATING
    /\ animationData' = Null
    /\ videoUrl' = Null
    /\ generationProgress' = 0
    /\ timerSeq' = timerSeq + 1
    /\ intervals' = ClearProgressTimer \cup {timerSeq + 1}
    /\ progressTimerRef' = timerSeq + 1
    /\ requests' = Append(Abort(requests, abortControllerRef),
                          [st |-> "pending", prompt |-> prompt])
    /\ abortControllerRef' = Len(requests) + 1
    /\ UNCHANGED <<prompt, chatInput, chatCalls, timeouts, apiKey, mounted,
                   chatHistory, chatRef>>

\* GenerateStarted without the resets of lines 204-205: result and video
\* reference of the earlier run are kept
GenerateStartedKeepsResult ==
    /\ NoMicrotask
    /\ Truthy(Trim(prompt))
    /\ Len(requests) + Len(chatCalls) < MaxCalls
    /\ error' = Null
    /\ loadingState' = GENERATING
    /\ chatHistory' = <<>>
    /\ chatRef' = Null
    /\ generationProgress' = 0
    /\ timerSeq' = timerSeq + 1
    /\ intervals' = ClearProgressTimer \cup {timerSeq + 1}
    /\ progressTimerRef' = timerSeq + 1
    /\ requests' = Append(Abort(requests, abortControllerRef),
                          [st |-> "pending", prompt |-> prompt])
    /\ abortControllerRef' = Len(requests) + 1
    /\ UNCHANGED <<prompt, chatInput, chatCalls, timeouts, apiKey, mounted,
                   animationData, videoUrl>>

\* handleGenerate, lines 202-227: up to the await of the request
GenerateStarted ==
    /\ NoMicrotask
    /\ Truthy(Trim(prompt))
    /\ Len(requests) + Len(chatCalls) < MaxCalls
    /\ error' = Null
    /\ loadingState' = GENERATING
    /\ animationData' = Null
    /\ videoUrl' = Null
    /\ chatHistory' = <<>>
    /\ chatRef' = Null
    /\ generationProgress' = 0
    /\ timerSeq' = timerSeq + 1
    /\ intervals' = ClearProgressTimer \cup {timerSeq + 1}
    /\ progressTimerRef' = timerSeq + 1
    /\ requests' = Append(Abort(requests, abortControllerRef),
                          [st |-> "pending", prompt |-> prompt])
    /\ abortControllerRef' = Len(requests) + 1
    /\ UNCHANGED <<prompt, chatInput, chatCalls, timeouts, apiKey, mounted>>

handleGenerate == GenerateRejected \/ GenerateStarted

\* ChatSetup with a preamble that leaves out the result's code
ChatSetupWithoutCode(result) == [manimCode |-> <<>>,
                                 explanationScript |-> result.explanationScript]

\* lines 176-192: the chat setup effect, run after animationData became result
ChatSetup(result) == [manimCode |-> result.manimCode,
                      explanationScript |-> result.explanationScript]

\* GenerateSucceeded without the clearInterval of line 230
GenerateSucceededKeepsTicker(r, result) ==
    /\ generationProgress' = ProgressDone
    /\ timerSeq' = timerSeq + 1
    /\ timeouts' = timeouts \cup {timerSeq + 1}
    /\ animationData' = Some(result)
    /\ videoUrl' = Some(result.videoUrl)
    /\ chatHistory' = <<[role |-> "model", text |-> result.initialChatMessage]>>
    /\ loadingState' = DONE
    /\ IF chatRef # Null THEN UNCHANGED <<chatRef, error>>
       ELSE IF apiKey THEN chatRef' = Some(ChatSetup(result)) /\ UNCHANGED error
       ELSE error' = Some(MissingKeyMsg) /\ UNCHANGED chatRef
    /\ UNCHANGED <<prompt, chatInput, abortControllerRef, chatCalls, apiKey, mounted,
                   intervals, progressTimerRef>>

\* GenerateSucceeded with an effect that skips the apiKey test of lines 179-183
GenerateSucceededIgnoresKey(r, result) ==
    /\ generationProgress' = ProgressDone
    /\ intervals' = ClearProgressTimer
    /\ progressTimerRef' = 0
    /\ timerSeq' = timerSeq + 1
    /\ timeouts' = timeouts \cup {timerSeq + 1}
    /\ animationData' = Some(result)
    /\ videoUrl' = Some(result.videoUrl)
    /\ chatHistory' = <<[role |-> "model", text |-> result.initialChatMessage]>>
    /\ loadingState' = DONE
    /\ IF chatRef # Null THEN UNCHANGED <<chatRef, error>>
       ELSE chatRef' = Some(ChatSetup(result)) /\ UNCHANGED error
    /\ UNCHANGED <<prompt, chatInput, abortControllerRef, chatCalls, apiKey, mounted>>

\* GenerateSucceeded without the seeding of the transcript of lines 235-238
GenerateSucceededUnseeded(r, result) ==
    /\ generationProgress' = ProgressDone
    /\ intervals' = ClearProgressTimer
    /\ progressTimerRef' = 0
    /\ timerSeq' = timerSeq + 1
    /\ timeouts' = timeouts \cup {timerSeq + 1}
    /\ animationData' = Some(result)
    /\ videoUrl' = Some(result.videoUrl)
    /\ loadingState' = DONE
    /\ IF chatRef # Null THEN UNCHANGED <<chatRef, error>>
       ELSE IF apiKey THEN chatRef' = Some(ChatSetup(result)) /\ UNCHANGED error
       ELSE error' = Some(MissingKeyMsg) /\ UNCHANGED chatRef
    /\ UNCHANGED <<prompt, chatInput, abortControllerRef, chatCalls, apiKey, mounted,
                   chatHistory>>

\* handleGenerate, lines 228-239 and the effect of lines 176-192: request r
\* resolved with a result
GenerateSucceeded(r, result) ==
    /\ generationProgress' = ProgressDone
    /\ intervals' = ClearProgressTimer
    /\ progressTimerRef' = 0
    /\ timerSeq' = timerSeq + 1
    /\ timeouts' = timeouts \cup {timerSeq + 1}
    /\ animationData' = Some(result)
    /\ videoUrl' = Some(result.videoUrl)
    /\ chatHistory' = <<[role |-> "model", text |-> result.initialChatMessage]>>
    /\ loadingState' = DONE
    /\ IF chatRef # Null THEN UNCHANGED <<chatRef, error>>
       ELSE IF apiKey THEN chatRef' = Some(ChatSetup(result)) /\ UNCHANGED error
       ELSE error' = Some(MissingKeyMsg) /\ UNCHANGED chatRef
    /\ UNCHANGED <<prompt, chatInput, abortControllerRef, chatCalls, apiKey, mounted>>

\* GenerateFailed without the setLoadingState of line 243
GenerateFailedKeepsState(r, message) ==
    /\ error' = Some(IF Truthy(message) THEN message ELSE UnknownErrorMsg)
    /\ UNCHANGED <<prompt, loadingState, animationData, videoUrl, chatHistory, chatInput,
                   chatRef, generationProgress, progressTimerRef, abortControllerRef,
                   chatCalls, intervals, timeouts, timerSeq, apiKey, mounted>>

\* handleGenerate, lines 241-244: request r rejected with an Error
GenerateFailed(r, message) ==
    /\ error' = Some(IF Truthy(message) THEN message ELSE UnknownErrorMsg)
    /\ loadingState' = ERROR
    /\ UNCHANGED <<prompt, animationData, videoUrl, chatHistory, chatInput, chatRef,
                   generationProgress, progressTimerRef, abortControllerRef,
                   chatCalls, intervals, timeouts, timerSeq, apiKey, mounted>>

\* the await of line 227 returns in the handleGenerate call that made request r
GenerateSettles(r, o) ==
    /\ r \in DOMAIN requests
    /\ requests[r].st \in {"pending", "aborting"}
    /\ requests[r].st = "pending" => NoMicrotask
    /\ o \in OutcomesOf(requests[r].st)
    /\ requests' = [requests EXCEPT ![r].st = "settled"]
    /\ LET c == generateAnimationFromPrompt(o)
       IN  IF c.threw THEN GenerateFailed(r, c.message)
           ELSE GenerateSucceeded(r, c.result[1])

\* handleCancel without the clearInterval of lines 252-255
handleCancelKeepsTicker ==
    /\ NoMicrotask
    /\ requests' = Abort(requests, abortControllerRef)
    /\ abortControllerRef' = 0
    /\ generationProgress' = 0
    /\ loadingState' = IDLE
    /\ error' = Some(GenerationCancelledMsg)
    /\ UNCHANGED <<prompt, animationData, videoUrl, chatHistory, chatInput, chatRef,
                   chatCalls, timeouts, timerSeq, apiKey, mounted,
                   intervals, progressTimerRef>>

\* lines 247-259
handleCancel ==
    /\ NoMicrotask
    /\ requests' = Abort(requests, abortControllerRef)
    /\ abortControllerRef' = 0
    /\ intervals' = ClearProgressTimer
    /\ progressTimerRef' = 0
    /\ generationProgress' = 0
    /\ loadingState' = IDLE
    /\ error' = Some(GenerationCancelledMsg)
    /\ UNCHANGED <<prompt, animationData, videoUrl, chatHistory, chatInput, chatRef,
                   chatCalls, timeouts, timerSeq, apiKey, mounted>>

\* Tick without the Math.min(92, ...) of line 219
TickUnclamped(i, d) ==
    /\ NoMicrotask
    /\ i \in intervals
    /\ \A t \in timeouts : t > i
    /\ generationProgress' = generationProgress + d
    /\ UNCHANGED <<prompt, loadingState, error, animationData, videoUrl, chatHistory,
                   chatInput, chatRef, progressTimerRef, abortControllerRef,
                   requests, chatCalls, intervals, timeouts, timerSeq, apiKey, mounted>>

\* lines 215-221: one firing of the interval with id i.  A timeout of 600 ms
\* set before this 900 ms interval was started fires before its first tick.
Tick(i, d) ==
    /\ NoMicrotask
    /\ i \in intervals
    /\ \A t \in timeouts : t > i
    /\ generationProgress' = Min(ProgressCap, generationProgress + d)
    /\ UNCHANGED <<prompt, loadingState, error, animationData, videoUrl, chatHistory,
                   chatInput, chatRef, progressTimerRef, abortControllerRef,
                   requests, chatCalls, intervals, timeouts, timerSeq, apiKey, mounted>>

\* line 231: the settle-delay timeout with id t fires
SettleDelay(t) ==
    /\ NoMicrotask
    /\ t \in timeouts
    /\ timeouts' = timeouts \ {t}
    /\ generationProgress' = 0
    /\ UNCHANGED <<prompt, loadingState, error, animationData, videoUrl, chatHistory,
                   chatInput, chatRef, progressTimerRef, abortControllerRef,
                   requests, chatCalls, intervals, timerSeq, apiKey, mounted>>

\* CanSend without the trim of line 286
CanSendUntrimmed == Truthy(chatInput) /\ chatRef # Null

\* handleChatSubmit, line 286: there is something to send and a session
CanSend == Truthy(Trim(chatInput)) /\ chatRef # Null

\* handleChatSubmit, line 286: the early return
ChatSubmitIgnored ==
    /\ NoMicrotask
    /\ ~CanSend
    /\ UNCHANGED vars

\* ChatSubmitSent without the optimistic append of line 289
ChatSubmitSentWithoutAppend ==
    /\ NoMicrotask
    /\ CanSend
    /\ Len(requests) + Len(chatCalls) < MaxCalls
    /\ chatInput' = <<>>
    /\ loadingState' = RESPONDING_CHAT
    /\ chatCalls' = Append(chatCalls, [st |-> "pending", session |-> chatRef[1],
                                       message |-> chatInput])
    /\ UNCHANGED <<prompt, error, animationData, videoUrl, chatHistory, chatRef,
                   generationProgress, progressTimerRef, abortControllerRef, requests,
                   intervals, timeouts, timerSeq, apiKey, mounted>>

\* handleChatSubmit, lines 288-296: up to the await of sendMessage
ChatSubmitSent ==
    /\ NoMicrotask
    /\ CanSend
    /\ Len(requests) + Len(chatCalls) < MaxCalls
    /\ chatHistory' = Append(chatHistory, [role |-> "user", text |-> chatInput])
    /\ chatInput' = <<>>
    /\ loadingState' = RESPONDING_CHAT
    /\ chatCalls' = Append(chatCalls, [st |-> "pending", session |-> chatRef[1],
                                       message |-> chatInput])
    /\ UNCHANGED <<prompt, error, animationData, videoUrl, chatRef, generationProgress,
                   progressTimerRef, abortControllerRef, requests, intervals,
                   timeouts, timerSeq, apiKey, mounted>>

handleChatSubmit == ChatSubmitIgnored \/ ChatSubmitSent

\* handleChatSubmit, lines 297-298 and 303: sendMessage of call c resolved
ChatReplied(c, text) ==
    /\ NoMicrotask
    /\ c \in DOMAIN chatCalls
    /\ chatCalls[c].st = "pending"
    /\ chatCalls' = [chatCalls EXCEPT ![c].st = "settled"]
    /\ chatHistory' = Append(chatHistory, [role |-> "model", text |-> text])
    /\ loadingState' = DONE
    /\ UNCHANGED <<prompt, error, animationData, videoUrl, chatInput, chatRef,
                   generationProgress, progressTimerRef, abortControllerRef,
                   requests, intervals, timeouts, timerSeq, apiKey, mounted>>

\* ChatFailed treated like a failed generation: ERROR and no apology
ChatFailedEscalates(c) ==
    /\ NoMicrotask
    /\ c \in DOMAIN chatCalls
    /\ chatCalls[c].st = "pending"
    /\ chatCalls' = [chatCalls EXCEPT ![c].st = "settled"]
    /\ error' = Some(ChatFailedMsg)
    /\ loadingState' = ERROR
    /\ UNCHANGED <<prompt, animationData, videoUrl, chatHistory, chatInput, chatRef,
                   generationProgress, progressTimerRef, abortControllerRef,
                   requests, intervals, timeouts, timerSeq, apiKey, mounted>>

\* ChatFailed without the setError of line 300
ChatFailedQuiet(c) ==
    /\ NoMicrotask
    /\ c \in DOMAIN chatCalls
    /\ chatCalls[c].st = "pending"
    /\ chatCalls' = [chatCalls EXCEPT ![c].st = "settled"]
    /\ chatHistory' = Append(chatHistory, [role |-> "model", text |-> ChatApologyMsg])
    /\ loadingState' = DONE
    /\ UNCHANGED <<prompt, error, animationData, videoUrl, chatInput, chatRef,
                   generationProgress, progressTimerRef, abortControllerRef,
                   requests, intervals, timeouts, timerSeq, apiKey, mounted>>

\* handleChatSubmit, lines 299-303: sendMessage of call c rejected
ChatFailed(c) ==
    /\ NoMicrotask
    /\ c \in DOMAIN chatCalls
    /\ chatCalls[c].st = "pending"
    /\ chatCalls' = [chatCalls EXCEPT ![c].st = "settled"]
    /\ error' = Some(ChatFailedMsg)
    /\ chatHistory' = Append(chatHistory, [role |-> "model", text |-> ChatApologyMsg])
    /\ loadingState' = DONE
    /\ UNCHANGED <<prompt, animationData, videoUrl, chatInput, chatRef,
                   generationProgress, progressTimerRef, abortControllerRef,
                   requests, intervals, timeouts, timerSeq, apiKey, mounted>>

\* lines 275-281: the cleanup of the mount effect, run when App is unmounted
Unmount ==
    /\ NoMicrotask
    /\ mounted
    /\ mounted' = FALSE
    /\ intervals' = ClearProgressTimer
    /\ progressTimerRef' = 0
    /\ UNCHANGED <<prompt, loadingState, error, animationData, videoUrl, chatHistory,
                   chatInput, chatRef, generationProgress, abortControllerRef,
                   requests, chatCalls, timeouts, timerSeq, apiKey>>

\* lines 228-244 after the unmount: the state setters of an unmounted component
\* do nothing, the calls on window and on the refs still happen
GenerateSettlesUnmounted(r, o) ==
    /\ r \in DOMAIN requests
    /\ requests[r].st \in {"pending", "aborting"}
    /\ requests[r].st = "pending" => NoMicrotask
    /\ o \in OutcomesOf(requests[r].st)
    /\ requests' = [requests EXCEPT ![r].st = "settled"]
    /\ IF generateAnimationFromPrompt(o).threw
       THEN UNCHANGED <<intervals, progressTimerRef, timerSeq, timeouts>>
       ELSE /\ intervals' = ClearProgressTimer
            /\ progressTimerRef' = 0
            /\ timerSeq' = timerSeq + 1
            /\ timeouts' = timeouts \cup {timerSeq + 1}
    /\ UNCHANGED <<prompt, loadingState, error, animationData, videoUrl, chatHistory,
                   chatInput, chatRef, generationProgress, abortControllerRef,
                   chatCalls, apiKey, mounted>>

\* line 231 after the unmount: the timeout fires and its setter does nothing
SettleDelayUnmounted(t) ==
    /\ NoMicrotask
    /\ t \in timeouts
    /\ timeouts' = timeouts \ {t}
    /\ UNCHANGED <<prompt, loadingState, error, animationData, videoUrl, chatHistory,
                   chatInput, chatRef, generationProgress, progressTimerRef,
                   abortControllerRef, requests, chatCalls, intervals, timerSeq,
                   apiKey, mounted>>

\* lines 296-303 after the unmount: sendMessage of call c settled
ChatSettlesUnmounted(c) ==
    /\ NoMicrotask
    /\ c \in DOMAIN chatCalls
    /\ chatCalls[c].st = "pending"
    /\ chatCalls' = [chatCalls EXCEPT ![c].st = "settled"]
    /\ UNCHANGED <<prompt, loadingState, error, animationData, videoUrl, chatHistory,
                   chatInput, chatRef, generationProgress, progressTimerRef,
                   abortControllerRef, requests, intervals, timeouts, timerSeq,
                   apiKey, mounted>>

AllOutcomes == OkOutcomes \cup HttpErrorOutcomes \cup {NetworkOutcome, AbortOutcome}

\* every handler may be called in every state
Next ==
    \/ \E p \in Prompts : SetPrompt(p)
    \/ \E s \in ChatInputs : SetChatInput(s)
    \/ DismissError
    \/ handleGenerate
    \/ \E r \in 1..MaxCalls : \E o \in AllOutcomes : GenerateSettles(r, o)
    \/ handleCancel
    \/ \E i \in intervals : \E d \in 0..TickSpread : Tick(i, d)
    \/ \E t \in timeouts : SettleDelay(t)
    \/ handleChatSubmit
    \/ \E c \in 1..MaxCalls : \E text \in Replies : ChatReplied(c, text)
    \/ \E c \in 1..MaxCalls : ChatFailed(c)

Spec == Init /\ [][Next]_vars

\* every pending request is answered and every scheduled timer fires
Fairness ==
    /\ WF_vars(\E r \in 1..MaxCalls : \E o \in AllOutcomes : GenerateSettles(r, o))
    /\ WF_vars(\E t \in timeouts : SettleDelay(t))

FairSpec == Spec /\ Fairness

\* ---------------------------------------- the handlers as the page offers them
\* lines 395-412: Cancel replaces Generate while generating; Generate is
\* disabled while a chat reply is awaited
GenerateOffered == loadingState \notin {GENERATING, RESPONDING_CHAT}
CancelOffered == loadingState = GENERATING
\* lines 479 and 541: the chat form is rendered with a result; its Send button
\* is disabled without text and while a chat reply is awaited
SendOffered ==
    /\ animationData # Null
    /\ Truthy(Trim(chatInput))
    /\ ~ChatFormDisabled

NextUI ==
    \/ \E p \in Prompts : SetPrompt(p)
    \/ \E s \in ChatInputs : SetChatInput(s)
    \/ DismissError
    \/ GenerateOffered /\ handleGenerate
    \/ \E r \in 1..MaxCalls : \E o \in AllOutcomes : GenerateSettles(r, o)
    \/ CancelOffered /\ handleCancel
    \/ \E i \in intervals : \E d \in 0..TickSpread : Tick(i, d)
    \/ \E t \in timeouts : SettleDelay(t)
    \/ SendOffered /\ handleChatSubmit
    \/ \E c \in 1..MaxCalls : \E text \in Replies : ChatReplied(c, text)
    \/ \E c \in 1..MaxCalls : ChatFailed(c)

SpecUI == Init /\ [][NextUI]_vars

\* ------------------------------------------------- the page until it is closed
\* the page's handlers exist while App is mounted; what was started before the
\* unmount (requests, chat sends, timers) still completes after it
NextUnmount ==
    \/ mounted /\ NextUI
    \/ Unmount
    \/ ~mounted /\ \E r \in 1..MaxCalls : \E o \in AllOutcomes : GenerateSettlesUnmounted(r, o)
    \/ ~mounted /\ \E t \in timeouts : SettleDelayUnmounted(t)
    \/ ~mounted /\ \E c \in 1..MaxCalls : ChatSettlesUnmounted(c)

SpecUnmount == Init /\ [][NextUnmount]_vars

\* ------------------------------------------------------------- properties
Pending(r) == r \in DOMAIN requests /\ requests[r].st = "pending"
Succeeds(o) == ~generateAnimationFromPrompt(o).threw
\* handleCancel was the last of handleCancel and handleGenerate to run
CancelledSinceGenerate == abortControllerRef = 0 /\ Len(requests) > 0

\* C1: handleGenerate with a prompt that is not empty after trimming sets the
\* lifecycle to Generating in the step in which it is called; a lifecycle in
\* Generating eventually is Done, Error or Idle, given that requests are
\* answered; and Generating turns into Idle by handleCancel only.
C1_GenerateReachesOutcome ==
    /\ [][(handleGenerate /\ Truthy(Trim(prompt))) => loadingState' = GENERATING]_vars
    /\ (loadingState = GENERATING) ~> (loadingState \in {DONE, ERROR, IDLE})
    /\ [][(loadingState = GENERATING /\ loadingState' = IDLE) => handleCancel]_vars

C1_Witness ==
    /\ loadingState = DONE
    /\ animationData # Null
    /\ requests # <<>>
    /\ \A r \in DOMAIN requests : requests[r].st = "settled"

\* C2: handleGenerate called while an earlier request is pending aborts that
\* request, and the delivery of the earlier request's outcome changes none of
\* lifecycle state, error message, result, video reference, transcript,
\* progress and progress ticker.
C2_SupersededOutcomeIgnored ==
    /\ [][(GenerateStarted /\ Pending(abortControllerRef))
            => requests'[abortControllerRef].st = "aborting"]_vars
    /\ [][\A r \in 1..MaxCalls : \A o \in AllOutcomes :
            (GenerateSettles(r, o) /\ r < Len(requests))
            => UNCHANGED <<loadingState, error, animationData, videoUrl, chatHistory,
                           generationProgress, progressTimerRef, intervals>>]_vars

\* C3: handleCancel on a pending generation leaves the lifecycle Idle with a
\* message and progress 0, and the lifecycle stays Idle until the next
\* handleGenerate, also when the aborted request's rejection is delivered.
C3_CancelStaysIdle ==
    /\ [][(handleCancel /\ Pending(abortControllerRef))
            => (loadingState' = IDLE /\ error' # Null /\ generationProgress' = 0)]_vars
    /\ [][(CancelledSinceGenerate /\ loadingState = IDLE)
            => (loadingState' = IDLE \/ handleGenerate)]_vars

\* C4: from handleCancel until the next handleGenerate no ticker is scheduled
\* and progress is 0 in every state.
C4_NoTickerAfterCancel ==
    CancelledSinceGenerate =>
        /\ generationProgress = 0
        /\ intervals = {}
        /\ progressTimerRef = 0

\* the aborted request's rejection has been delivered after a cancel
C4_Witness ==
    /\ CancelledSinceGenerate
    /\ error = Some(CancelledMsg)
    /\ requests[Len(requests)].st = "settled"

\* C5: progress is a whole number from 0 to 100 in every state; in Generating
\* it is at most 92, and between two Generating states of the same request
\* it does not decrease.
C5_ProgressRange ==
    /\ [](generationProgress \in 0..ProgressDone)
    /\ [](loadingState = GENERATING => generationProgress <= ProgressCap)
    /\ [][(loadingState = GENERATING /\ loadingState' = GENERATING
            /\ Len(requests') = Len(requests))
            => generationProgress' >= generationProgress]_vars

\* the ticker has brought progress to the cap while a request is pending
C5_Witness ==
    /\ loadingState = GENERATING
    /\ generationProgress = ProgressCap
    /\ intervals # {}

\* C6: the step in which a request succeeds sets progress to 100, cancels the
\* ticker and schedules the settle-delay timer; no tick happens while a
\* settle-delay timer is scheduled; the timer fires and sets progress to 0.
C6_SuccessSettlesProgress ==
    /\ [][\A r \in 1..MaxCalls : \A o \in AllOutcomes :
            (GenerateSettles(r, o) /\ Succeeds(o))
            => /\ generationProgress' = ProgressDone
               /\ intervals' = {}
               /\ progressTimerRef' = 0
               /\ timeouts' # timeouts]_vars
    /\ [][(\E i \in intervals : \E d \in 0..TickSpread : Tick(i, d)) => timeouts = {}]_vars
    /\ [][(\E t \in timeouts : SettleDelay(t)) => generationProgress' = 0]_vars
    /\ (timeouts # {}) ~> (timeouts = {} /\ generationProgress = 0)

C6_Witness ==
    /\ generationProgress = ProgressDone
    /\ loadingState = DONE
    /\ intervals = {}
    /\ timeouts # {}

\* C7: a success response carrying manim_code C and download_url U makes the
\* lifecycle Done, stores a result with manimCode C and videoUrl the base
\* address followed by U, sets the video reference to that videoUrl, and
\* makes the transcript the one model entry with the initial chat message.
C7_SuccessStoresResult ==
    [][\A r \in 1..MaxCalls : \A o \in OkOutcomes :
         (GenerateSettles(r, o) /\ o.shape = "object")
         => /\ loadingState' = DONE
            /\ animationData' # Null
            /\ animationData'[1].manimCode = o.manim_code
            /\ animationData'[1].videoUrl = BaseAddress \o o.download_url
            /\ videoUrl' = Some(animationData'[1].videoUrl)
            /\ chatHistory' = <<[role |-> "model",
                                 text |-> animationData'[1].initialChatMessage]>>]_vars

C7_Witness ==
    /\ loadingState = DONE
    /\ animationData # Null
    /\ videoUrl = Some(<<"http://localhost:8000", "/files/x.mp4">>)
    /\ Len(chatHistory) = 1
    /\ chatHistory[1].role = "model"

\* the message C8 expects for a non-success response
C8_ExpectedMessage(o) ==
    IF o.shape = "object" /\ o.detailType = "string" THEN o.detail
    ELSE IF o.shape = "object" /\ o.detailType = "object" /\ o.message # <<>> THEN o.message
    ELSE GenericFailureMsg

\* C8: every non-success response makes the lifecycle Error with the body's
\* detail (a string), detail.message (an object with a message) or else the
\* generic message, and never with the connectivity or the cancelled message.
C8_BackendFailureMessage ==
    [][\A r \in 1..MaxCalls : \A o \in HttpErrorOutcomes :
         GenerateSettles(r, o)
         => /\ loadingState' = ERROR
            /\ error' = Some(C8_ExpectedMessage(o))
            /\ error' \notin {Some(UnreachableMsg), Some(CancelledMsg)}]_vars

\* C9: a fetch that cannot connect makes the lifecycle Error with the
\* connectivity message, and no non-success response and no cancellation
\* produces that message.
C9_UnreachableDistinct ==
    [][\A r \in 1..MaxCalls : \A o \in AllOutcomes :
         GenerateSettles(r, o)
         => /\ (o = NetworkOutcome =>
                   loadingState' = ERROR /\ error' = Some(UnreachableMsg))
            /\ (o # NetworkOutcome /\ loadingState' = ERROR =>
                   error' # Some(UnreachableMsg))]_vars

\* C10: handleChatSubmit with an input that is empty after trimming changes
\* none of transcript, lifecycle state, chat input, error message and session,
\* and sends no chat request.
C10_BlankChatIsNoOp ==
    [][(handleChatSubmit /\ ~Truthy(Trim(chatInput)))
         => UNCHANGED <<chatHistory, loadingState, chatInput, error, chatRef, chatCalls>>]_vars

\* a blank-only input is in the chat box while a session exists
C10_Witness ==
    /\ chatInput # <<>>
    /\ ~Truthy(Trim(chatInput))
    /\ chatRef # Null
    /\ Len(requests) + Len(chatCalls) < MaxCalls

\* C11: the rejection of a chat send appends exactly one entry to the
\* transcript, the model-role apology, right after the entry of the user's
\* message, and sets the lifecycle to Done (so never to Error).
C11_ChatFailureFallback ==
    [][\A c \in 1..MaxCalls :
         ChatFailed(c)
         => /\ chatHistory # <<>>
            /\ chatHistory[Len(chatHistory)] = [role |-> "user", text |-> chatCalls[c].message]
            /\ chatHistory' = Append(chatHistory, [role |-> "model", text |-> ChatApologyMsg])
            /\ loadingState' = DONE
            /\ loadingState' # ERROR]_vars

\* a chat send has failed: the apology follows the user's message
C11_Witness ==
    /\ loadingState = DONE
    /\ Len(chatHistory) >= 3
    /\ chatHistory[Len(chatHistory)] = [role |-> "model", text |-> ChatApologyMsg]
    /\ chatHistory[Len(chatHistory) - 1].role = "user"
    /\ \E c \in DOMAIN chatCalls : chatCalls[c].st = "settled"

\* C12 as claimed: the rejection of a chat send leaves the error message as
\* it was.
C12_ChatFailureLeavesBanner ==
    [][\A c \in 1..MaxCalls : ChatFailed(c) => UNCHANGED error]_vars

\* C12 as amended: the rejection of a chat send sets the error message to
\* "Failed to get chat response.", whatever it was, and the transcript then
\* ends with the model-role apology.
C12_ChatFailureSetsBanner ==
    [][\A c \in 1..MaxCalls :
         ChatFailed(c)
         => /\ error' = Some(ChatFailedMsg)
            /\ chatHistory'[Len(chatHistory')] = [role |-> "model", text |-> ChatApologyMsg]]_vars

\* the banner shows the chat failure next to the apology in the transcript
C12_Witness ==
    /\ error = Some(ChatFailedMsg)
    /\ chatHistory # <<>>
    /\ chatHistory[Len(chatHistory)].text = ChatApologyMsg

\* C13: a session that exists was created from the stored result: its
\* preamble holds that result's code and explanation.  A session that exists
\* is not replaced by another one, only discarded; the result changes only
\* with no session kept across the change; and a chat send goes to the
\* session of the stored result.
C13_SessionOfCurrentResult ==
    /\ [](chatRef # Null =>
            /\ animationData # Null
            /\ chatRef[1].manimCode = animationData[1].manimCode
            /\ chatRef[1].explanationScript = animationData[1].explanationScript)
    /\ [][chatRef # Null => (chatRef' = chatRef \/ chatRef' = Null)]_vars
    /\ [][(animationData' # animationData /\ chatRef # Null) => chatRef' # chatRef]_vars
    /\ [][ChatSubmitSent =>
            /\ animationData # Null
            /\ chatCalls'[Len(chatCalls')].session.manimCode = animationData[1].manimCode
            /\ chatCalls'[Len(chatCalls')].session.explanationScript
                   = animationData[1].explanationScript]_vars

\* a second generation has replaced the result by one with other code, the
\* session is the new result's, and an earlier send went to the earlier one
C13_Witness ==
    /\ chatRef # Null
    /\ animationData # Null
    /\ chatRef[1].manimCode = animationData[1].manimCode
    /\ \E c \in DOMAIN chatCalls : chatCalls[c].session.manimCode # chatRef[1].manimCode

\* C14: without the API key no session ever exists; a request that succeeds
\* then still makes the lifecycle Done, stores its result, seeds the
\* transcript and sets the error message to the configuration message; and
\* handleChatSubmit, with any input, sends nothing and leaves transcript and
\* lifecycle as they are.
C14_MissingCredential ==
    /\ [](~apiKey => (chatRef = Null /\ ~CanSend))
    /\ [][\A r \in 1..MaxCalls : \A o \in OkOutcomes :
            (~apiKey /\ GenerateSettles(r, o) /\ o.shape = "object")
            => /\ loadingState' = DONE
               /\ animationData' # Null
               /\ animationData'[1].manimCode = o.manim_code
               /\ chatHistory' = <<[role |-> "model", text |-> InitialChatMessage]>>
               /\ chatRef' = Null
               /\ error' = Some(MissingKeyMsg)]_vars
    /\ [][(~apiKey /\ handleChatSubmit)
            => UNCHANGED <<chatHistory, loadingState, chatCalls>>]_vars

\* a result is shown without a session, and there is text in the chat box
C14_Witness ==
    /\ ~apiKey
    /\ loadingState = DONE
    /\ animationData # Null
    /\ chatRef = Null
    /\ error = Some(MissingKeyMsg)
    /\ Truthy(Trim(chatInput))

\* C15: in every state at most one request is pending and not aborted, and it
\* is the one whose controller is held; handleGenerate leaves only its new
\* request pending, and handleCancel leaves none pending and holds no
\* controller.
C15_AtMostOnePending ==
    /\ [](Cardinality({r \in DOMAIN requests : requests[r].st = "pending"}) <= 1)
    /\ [](\A r \in DOMAIN requests : requests[r].st = "pending" => abortControllerRef = r)
    /\ [][GenerateStarted =>
            \A r \in DOMAIN requests' :
                requests'[r].st = "pending" <=> r = Len(requests')]_vars
    /\ [][handleCancel =>
            /\ abortControllerRef' = 0
            /\ \A r \in DOMAIN requests' : requests'[r].st # "pending"]_vars

\* handleGenerate has just superseded a request that was pending
C15_Witness ==
    /\ Len(requests) >= 2
    /\ requests[Len(requests) - 1].st = "aborting"
    /\ requests[Len(requests)].st = "pending"
    /\ abortControllerRef = Len(requests)

\* C16: a request whose controller was aborted before it was answered ends
\* with the error "Request cancelled by user.": not with a result, not with
\* the connectivity message and not with a message of the backend.
C16_AbortedIsCancelled ==
    [][\A r \in 1..MaxCalls : \A o \in AllOutcomes :
         (GenerateSettles(r, o) /\ requests[r].st = "aborting")
         => /\ error' = Some(CancelledMsg)
            /\ error' # Some(UnreachableMsg)
            /\ error' \notin {Some(GenericFailureMsg)}
                           \cup {Some(d) : d \in DetailStrings \cup DetailMessages}
            /\ loadingState' # DONE
            /\ UNCHANGED <<animationData, videoUrl, chatHistory>>]_vars

\* a superseded request has ended as cancelled while its successor is pending
C16_Witness ==
    /\ error = Some(CancelledMsg)
    /\ abortControllerRef # 0
    /\ requests[abortControllerRef].st = "pending"
    /\ \E r \in DOMAIN requests : r < abortControllerRef /\ requests[r].st = "settled"

\* C17: the step in which a request fails, whatever the failure, cancels
\* the ticker and sets progress to 0; and while the lifecycle stays Error no
\* ticker is scheduled and progress does not change.
C17_FailureStopsTicker ==
    /\ [][\A r \in 1..MaxCalls : \A o \in AllOutcomes :
            (GenerateSettles(r, o) /\ ~Succeeds(o))
            => /\ loadingState' = ERROR
               /\ intervals' = {}
               /\ generationProgress' = 0]_vars
    /\ [](loadingState = ERROR => intervals = {})
    /\ [][(loadingState = ERROR /\ loadingState' = ERROR)
            => generationProgress' = generationProgress]_vars

\* C19: handleGenerate with a prompt that is not empty, called while a chat
\* reply is awaited, sets the lifecycle to Generating; and the outcome of
\* that chat send, delivered while the new request is generating, changes
\* neither the transcript nor the lifecycle.
C19_GenerateDuringChat ==
    /\ [][(handleGenerate /\ Truthy(Trim(prompt)) /\ loadingState = RESPONDING_CHAT)
            => loadingState' = GENERATING]_vars
    /\ [][\A c \in 1..MaxCalls :
            (loadingState = GENERATING
               /\ (ChatFailed(c) \/ \E text \in Replies : ChatReplied(c, text)))
            => UNCHANGED <<chatHistory, loadingState>>]_vars

\* C20: in every state at most one chat send is awaiting its reply, the
\* lifecycle is RespondingToChat while one is, and no chat send starts while
\* the lifecycle is RespondingToChat.
C20_ChatSingleFlight ==
    /\ [](Cardinality({c \in DOMAIN chatCalls : chatCalls[c].st = "pending"}) <= 1)
    /\ []((\E c \in DOMAIN chatCalls : chatCalls[c].st = "pending")
            => loadingState = RESPONDING_CHAT)
    /\ [][ChatSubmitSent => loadingState # RESPONDING_CHAT]_vars

\* a second chat send is awaited after the first one was answered
C20_Witness ==
    /\ Len(chatCalls) >= 2
    /\ chatCalls[Len(chatCalls) - 1].st = "settled"
    /\ chatCalls[Len(chatCalls)].st = "pending"
    /\ loadingState = RESPONDING_CHAT

\* C18: handleCancel, the unmount and a handleGenerate that starts a new run
\* each leave no ticker and no settle-delay timer of an earlier run
\* scheduled, and no settle-delay timer changes progress while the lifecycle
\* is Generating.
C18_NoEarlierTimerRemains ==
    /\ [][handleCancel => (intervals' = {} /\ timeouts' = {})]_vars
    /\ [][Unmount => (intervals' = {} /\ timeouts' = {})]_vars
    /\ [][GenerateStarted => (intervals' = {progressTimerRef'} /\ timeouts' = {})]_vars
    /\ [][(loadingState = GENERATING /\ \E t \in timeouts : SettleDelay(t))
            => generationProgress' = generationProgress]_vars

\* C21: an accepted chat send appends the user's message to the transcript
\* and sets the lifecycle to RespondingToChat in the step of the call, with
\* the request still awaited; its completion appends exactly one model-role
\* entry, the reply or the apology, right after that message and sets the
\* lifecycle to Done; and each of these steps keeps every earlier entry of
\* the transcript as it was.
C21_ChatSendAppends ==
    /\ [][(handleChatSubmit /\ CanSend)
            => /\ chatHistory' = Append(chatHistory, [role |-> "user", text |-> chatInput])
               /\ loadingState' = RESPONDING_CHAT
               /\ Len(chatCalls') = Len(chatCalls) + 1
               /\ chatCalls'[Len(chatCalls')].st = "pending"
               /\ chatCalls'[Len(chatCalls')].message = chatInput]_vars
    /\ [][\A c \in 1..MaxCalls : \A text \in Replies :
            ChatReplied(c, text)
            => /\ chatHistory # <<>>
               /\ chatHistory[Len(chatHistory)] = [role |-> "user", text |-> chatCalls[c].message]
               /\ chatHistory' = Append(chatHistory, [role |-> "model", text |-> text])
               /\ loadingState' = DONE]_vars
    /\ [][\A c \in 1..MaxCalls :
            ChatFailed(c)
            => /\ chatHistory # <<>>
               /\ chatHistory[Len(chatHistory)].role = "user"
               /\ Len(chatHistory') = Len(chatHistory) + 1
               /\ chatHistory'[Len(chatHistory')].role = "model"
               /\ loadingState' = DONE]_vars
    /\ [][(handleChatSubmit \/ \E c \in 1..MaxCalls :
                (ChatFailed(c) \/ \E text \in Replies : ChatReplied(c, text)))
            => /\ Len(chatHistory') >= Len(chatHistory)
               /\ SubSeq(chatHistory', 1, Len(chatHistory)) = chatHistory]_vars

\* a chat send has been answered: the reply follows the user's message
C21_Witness ==
    /\ loadingState = DONE
    /\ Len(chatHistory) >= 3
    /\ chatHistory[Len(chatHistory)].role = "model"
    /\ chatHistory[Len(chatHistory)].text \in Replies
    /\ chatHistory[Len(chatHistory) - 1] = [role |-> "user", text |-> <<"why?", Blank>>]

\* C22: the step of handleGenerate with a prompt that is not empty after
\* trimming sets the lifecycle to Generating, clears the result, the video
\* reference, the transcript, the session and the error message, sets
\* progress to 0 and schedules a new ticker, the only one scheduled, whose id
\* progressTimerRef holds.
C22_GenerateClearsRun ==
    [][(handleGenerate /\ Truthy(Trim(prompt)))
         => /\ loadingState' = GENERATING
            /\ animationData' = Null
            /\ videoUrl' = Null
            /\ chatHistory' = <<>>
            /\ chatRef' = Null
            /\ error' = Null
            /\ generationProgress' = 0
            /\ progressTimerRef' # 0
            /\ progressTimerRef' \notin intervals
            /\ intervals' = {progressTimerRef'}]_vars

\* a new run has just been started over a run that had a result, a session, a
\* transcript with a chat exchange and an error message
C22_Witness ==
    /\ loadingState = GENERATING
    /\ Len(requests) >= 2
    /\ requests[Len(requests)].st = "pending"
    /\ \E c \in DOMAIN chatCalls : chatCalls[c].st = "settled"
    /\ animationData = Null
    /\ chatHistory = <<>>
    /\ chatRef = Null
    /\ generationProgress = 0
    /\ intervals # {}

\* C23: handleGenerate with a prompt that is empty after trimming starts no
\* request; it sets the error message to "Please enter a prompt." and leaves
\* lifecycle, result, video reference, transcript, session, progress, ticker
\* and held controller as they are.
C23_EmptyPromptRejected ==
    [][(handleGenerate /\ ~Truthy(Trim(prompt)))
         => /\ error' = Some(EmptyPromptMsg)
            /\ UNCHANGED <<requests, loadingState, animationData, videoUrl, chatHistory,
                           chatRef, generationProgress, intervals, progressTimerRef,
                           abortControllerRef>>]_vars

\* a blank prompt was refused while a result is shown
C23_Witness ==
    /\ prompt # <<>>
    /\ ~Truthy(Trim(prompt))
    /\ error = Some(EmptyPromptMsg)
    /\ loadingState = DONE
    /\ animationData # Null
    /\ Len(requests) = 1

\* C24 as claimed: a success response makes the result's explanation the
\* response's explanation field when it has one, and "{}" when it has none.
C24_ExplanationFromResponse ==
    [][\A r \in 1..MaxCalls : \A o \in OkOutcomes :
         (GenerateSettles(r, o) /\ o.shape = "object")
         => /\ animationData' # Null
            /\ animationData'[1].explanationScript
                  = (IF o.explanation # Null THEN o.explanation[1] ELSE EmptyExplanation)]_vars

\* C24 as amended: a success response makes the result's explanation "{}",
\* with or without an explanation field in the response, and the session's
\* preamble carries that "{}".
C24_ExplanationIsPlaceholder ==
    /\ [][\A r \in 1..MaxCalls : \A o \in OkOutcomes :
            (GenerateSettles(r, o) /\ o.shape = "object")
            => /\ animationData' # Null
               /\ animationData'[1].explanationScript = EmptyExplanation]_vars
    /\ [](animationData # Null => animationData[1].explanationScript = <<"{}">>)
    /\ [](chatRef # Null => chatRef[1].explanationScript = <<"{}">>)

\* a result is stored with the placeholder, and so is its session
C24_Witness ==
    /\ animationData # Null
    /\ animationData[1].explanationScript = <<"{}">>
    /\ chatRef # Null
    /\ chatRef[1].explanationScript = <<"{}">>
    /\ timeouts # {}

\* C25: with the handlers as the page offers them, in every state whose
\* lifecycle is Generating there is no result, no video reference, no
\* transcript entry and no session, so handleChatSubmit has nothing to send;
\* and no chat send starts while the lifecycle is Generating.
C25_GeneratingIsClear ==
    /\ [](loadingState = GENERATING =>
            /\ animationData = Null
            /\ videoUrl = Null
            /\ chatHistory = <<>>
            /\ chatRef = Null
            /\ ~CanSend
            /\ ~SendOffered)
    /\ [][ChatSubmitSent => loadingState # GENERATING]_vars

\* a new run is generating while the chat box still holds text typed during
\* the run before
C25_Witness ==
    /\ loadingState = GENERATING
    /\ Truthy(Trim(chatInput))
    /\ animationData = Null
    /\ chatRef = Null
    /\ Len(requests) >= 2

\* the transcript alternates: the entry at an odd place is of role model,
\* the entry at an even place of role user
C26_Alternates ==
    \A i \in DOMAIN chatHistory :
        chatHistory[i].role = (IF i % 2 = 1 THEN "model" ELSE "user")

\* C26: with the handlers as the page offers them, when the lifecycle is Done
\* the transcript is the result's initial message followed by (user, model)
\* pairs: odd length, roles alternating, last entry of role model; and when
\* the lifecycle is RespondingToChat it has even length, roles alternating,
\* last entry of role user.
C26_TranscriptShape ==
    /\ [](loadingState = DONE =>
            /\ animationData # Null
            /\ Len(chatHistory) % 2 = 1
            /\ chatHistory[1] = [role |-> "model", text |-> animationData[1].initialChatMessage]
            /\ C26_Alternates
            /\ chatHistory[Len(chatHistory)].role = "model")
    /\ [](loadingState = RESPONDING_CHAT =>
            /\ Len(chatHistory) >= 2
            /\ Len(chatHistory) % 2 = 0
            /\ C26_Alternates
            /\ chatHistory[Len(chatHistory)].role = "user")

\* two chat exchanges have followed the initial message
C26_Witness ==
    /\ loadingState = DONE
    /\ Len(chatHistory) = 5
    /\ chatHistory[4].role = "user"
    /\ chatHistory[5].role = "model"

====
